---- MODULE Spec2Model ----
(***************************************************************************)
(* NBA Fantasy Draft Board (src/app.py): the record consolidation of the   *)
(* PDF and CSV ingestion paths, the text-line fallback extractor, and the  *)
(* session's draft state (players_df, drafted).                            *)
(***************************************************************************)
EXTENDS Integers, Sequences, FiniteSets, TLC

VARIABLES players_df, drafted, to_draft, event, upload, raw, emitted

vars == <<players_df, drafted, to_draft, event, upload, raw, emitted>>

(***************************************************************************)
(* Bounds of the model.                                                    *)
(***************************************************************************)
\* most raw records pooled from the pages of one PDF
MaxPdfRows == 4
\* most data rows of one CSV file
MaxCsvRows == 3
\* the roster cap (head(300) in the source), scaled down to the record
\* counts above so that truncation happens
Cap == 2
\* most name-position tokens of one text line
MaxNameToks == 2

(***************************************************************************)
(* Values.                                                                 *)
(***************************************************************************)
\* a missing float (numpy NaN) and a missing Int64 (pandas NA)
NaN == -1
NA == -1
\* a raw Blend that is None or does not parse as a number
Unparsed == -2

\* player names, in Python's string order
Players == <<"Joel Embiid", "Luka Doncic", "Nikola Jokic">>
PlayerSet == {Players[i] : i \in 1..Len(Players)}
PlayerOrd(p) == CHOOSE i \in 1..Len(Players) : Players[i] = p

Teams == {"", "DAL"}
RawBlends == {Unparsed, 1, 2}

\* session_state["players_df"]: None, or a stored DataFrame (a sequence of rows)
None == [set |-> FALSE, df |-> <<>>]
Stored(df) == [set |-> TRUE, df |-> df]

Min(a, b) == IF a < b THEN a ELSE b

(***************************************************************************)
(* pandas operations used by the two ingestion paths.                      *)
(***************************************************************************)
\* pd.to_numeric(..., errors="coerce")
to_numeric(b) == IF b \in Nat THEN b ELSE NaN

\* the rows of df at the positions in I, in df's order (boolean-mask selection)
RECURSIVE Take(_, _, _)
Take(df, I, i) ==
    IF i > Len(df) THEN <<>>
    ELSE (IF i \in I THEN <<df[i]>> ELSE <<>>) \o Take(df, I, i + 1)

\* row r sorts strictly before row s under sort_values([col, "Player"])
Before(r, s, col, na_position) ==
    LET a == r[col]
        b == s[col]
    IN  IF a # b
        THEN IF a = NaN THEN na_position = "first"
             ELSE IF b = NaN THEN na_position = "last"
             ELSE a < b
        ELSE PlayerOrd(r.Player) < PlayerOrd(s.Player)

\* df.sort_values([col, "Player"], ascending=[True, True], na_position=...):
\* a stable sort (lexsort), rows with equal keys keep their order
sort_values(df, col, na_position) ==
    LET n == Len(df)
        pos(i) == 1 + Cardinality({j \in 1..n : Before(df[j], df[i], col, na_position)})
                    + Cardinality({j \in 1..(i - 1) :
                                     /\ ~Before(df[j], df[i], col, na_position)
                                     /\ ~Before(df[i], df[j], col, na_position)})
    IN  [k \in 1..n |-> df[CHOOSE i \in 1..n : pos(i) = k]]

drop_duplicates_last(df) ==
    Take(df, {i \in 1..Len(df) : \A j \in (i + 1)..Len(df) : df[j].Player # df[i].Player}, 1)

\* df.drop_duplicates(subset=["Player"], keep="first")
drop_duplicates(df) ==
    Take(df, {i \in 1..Len(df) : \A j \in 1..(i - 1) : df[j].Player # df[i].Player}, 1)

\* df.head(n)
head(df, n) == SubSeq(df, 1, Min(n, Len(df)))

rank_min(df) ==
    [i \in 1..Len(df) |->
        IF df[i].Blend = NaN THEN NA
        ELSE 1 + Cardinality({j \in 1..Len(df) :
                                df[j].Blend # NaN /\ df[j].Blend < df[i].Blend})]

\* df["Blend"].rank(method="first").astype("Int64"): a NaN Blend ranks NaN,
\* which Int64 holds as NA; equal Blends rank in order of appearance
rank_first(df) ==
    [i \in 1..Len(df) |->
        IF df[i].Blend = NaN THEN NA
        ELSE 1 + Cardinality({j \in 1..Len(df) :
                                df[j].Blend # NaN /\ df[j].Blend < df[i].Blend})
               + Cardinality({j \in 1..(i - 1) : df[j].Blend = df[i].Blend})]

\* df["ADP_Rank"] = ...
with_rank(df) ==
    LET rk == rank_first(df)
    IN  [i \in 1..Len(df) |->
            [Player |-> df[i].Player, Team |-> df[i].Team, Pos |-> df[i].Pos,
             Blend |-> df[i].Blend, ADP_Rank |-> rk[i]]]

\* df["Blend"] = pd.to_numeric(df["Blend"], errors="coerce")
coerce(rows) ==
    [i \in 1..Len(rows) |->
        [Player |-> rows[i].Player, Team |-> rows[i].Team, Pos |-> rows[i].Pos,
         Blend |-> to_numeric(rows[i].Blend)]]

sort_roster_na_first(df) == sort_values(df, "Blend", "first")

\* sort_values(["Blend","Player"], ascending=[True,True], na_position="last")
sort_roster(df) == sort_values(df, "Blend", "last")

\* parse_pdf_cached, from the rows the two extractors have pooled (lines 93-104)
parse_pdf_cached(rows) ==
    IF rows = <<>> THEN <<>>
    ELSE with_rank(head(drop_duplicates(sort_roster(coerce(rows))), Cap))

\* parse_csv, from the rows of the file read
parse_csv(rows) ==
    with_rank(head(sort_roster(coerce(rows)), Cap))

(***************************************************************************)
(* The Remaining and Drafted tables of one script run.                     *)
(***************************************************************************)
isin(df, names) == {i \in 1..Len(df) : df[i].Player \in names}

remaining_unfiltered(df, names) == df

\* df[~df["Player"].isin(st.session_state["drafted"])].copy()
remaining_mask(df, names) == Take(df, (1..Len(df)) \ isin(df, names), 1)

\* df[df["Player"].isin(st.session_state["drafted"])].copy()
drafted_mask(df, names) == Take(df, isin(df, names), 1)

Reverse(df) == [i \in 1..Len(df) |-> df[Len(df) + 1 - i]]

sort_remaining_unstable(df) == sort_values(Reverse(df), "Blend", "last")

\* remaining_df.sort_values(["Blend","Player"], ascending=[True,True]).reset_index(drop=True)
sort_remaining(df) == sort_values(df, "Blend", "last")

\* drafted_df.sort_values(["ADP_Rank","Player"], ascending=[True,True]).reset_index(drop=True)
sort_drafted(df) == sort_values(df, "ADP_Rank", "last")

remaining_df == sort_remaining(remaining_mask(players_df.df, drafted))
drafted_df == sort_drafted(drafted_mask(players_df.df, drafted))

\* the column Player of a table, as a set
names_of(df) == {df[i].Player : i \in 1..Len(df)}

\* edited.loc[edited["Draft"] == True, "Player"].tolist()
checked_players(edited, checked) ==
    LET sel == Take(edited, checked, 1)
    IN  [i \in 1..Len(sel) |-> sel[i].Player]

list_set(l) == {l[i] : i \in 1..Len(l)}

update_toggle(s, l) == (s \ list_set(l)) \cup (list_set(l) \ s)
update_replace(s, l) == list_set(l)

\* st.session_state["drafted"].update(to_draft)
update(s, l) == s \cup list_set(l)

unset_always(df) == TRUE

\* st.session_state["players_df"] is None
unset(df) == df = None

\* the else branch of "if df is None or len(df) == 0"
board_shown == players_df # None /\ Len(players_df.df) > 0

(***************************************************************************)
(* Text: a string is a sequence of one-character strings.                  *)
(***************************************************************************)
UC == <<"A","B","C","D","E","F","G","H","I","J","K","L","M",
        "N","O","P","Q","R","S","T","U","V","W","X","Y","Z">>
LC == <<"a","b","c","d","e","f","g","h","i","j","k","l","m",
        "n","o","p","q","r","s","t","u","v","w","x","y","z">>
Digits == <<"0","1","2","3","4","5","6","7","8","9">>

IsUpper(c) == \E i \in 1..Len(UC) : UC[i] = c
IsLower(c) == \E i \in 1..Len(LC) : LC[i] = c
IsDigit(c) == \E i \in 1..Len(Digits) : Digits[i] = c
\* \s, \S and \w of the re module
IsSpace(c) == c \in {" ", "\t"}
IsWordChar(c) == IsUpper(c) \/ IsLower(c) \/ IsDigit(c) \/ c = "_"
\* a character as flags=re.I compares it
lower(c) == IF IsUpper(c) THEN LC[CHOOSE i \in 1..Len(UC) : UC[i] = c] ELSE c
DigitVal(c) == (CHOOSE i \in 1..Len(Digits) : Digits[i] = c) - 1

\* every character of s is one of \d, of [A-Z], of [A-Z/]
AllDigits(s) == \A i \in 1..Len(s) : IsDigit(s[i])
AllUpper(s) == \A i \in 1..Len(s) : IsUpper(s[i])
AllPosChars(s) == \A i \in 1..Len(s) : IsUpper(s[i]) \/ s[i] = "/"

\* str.strip() and the right half of it
rstrip(s) ==
    LET keep == {i \in 1..Len(s) : ~IsSpace(s[i])}
    IN  IF keep = {} THEN <<>>
        ELSE SubSeq(s, 1, CHOOSE i \in keep : \A j \in keep : j <= i)
strip(s) ==
    LET keep == {i \in 1..Len(s) : ~IsSpace(s[i])}
    IN  IF keep = {} THEN <<>>
        ELSE SubSeq(s, CHOOSE i \in keep : \A j \in keep : i <= j,
                       CHOOSE i \in keep : \A j \in keep : j <= i)

\* re.sub(r"\s+", " ", s), from position i on
RECURSIVE collapse(_, _)
collapse(s, i) ==
    IF i > Len(s) THEN <<>>
    ELSE IF IsSpace(s[i])
         THEN (IF i > 1 /\ IsSpace(s[i - 1]) THEN <<>> ELSE <<" ">>) \o collapse(s, i + 1)
         ELSE <<s[i]>> \o collapse(s, i + 1)

\* _clean
clean(s) == strip(collapse(s, 1))

\* str.split(), from position i on
RECURSIVE split_from(_, _)
split_from(s, i) ==
    IF i > Len(s) THEN <<>>
    ELSE IF IsSpace(s[i]) THEN split_from(s, i + 1)
    ELSE LET stops == {j \in i..Len(s) : j = Len(s) \/ IsSpace(s[j + 1])}
             e == CHOOSE j \in stops : \A k \in stops : j <= k
         IN  <<SubSeq(s, i, e)>> \o split_from(s, e + 1)
split(s) == split_from(s, 1)

\* " ".join(parts)
RECURSIVE join(_)
join(parts) ==
    IF parts = <<>> THEN <<>>
    ELSE IF Len(parts) = 1 THEN parts[1]
    ELSE parts[1] \o <<" ">> \o join(Tail(parts))

\* the lower-cased word w stands in s at position i, case ignored
at_ci(s, i, w) ==
    /\ i >= 1
    /\ i + Len(w) - 1 <= Len(s)
    /\ \A k \in 1..Len(w) : lower(s[i + k - 1]) = w[k]
\* \b between s[i-1] and s[i]
boundary(s, i) ==
    (i > 1 /\ IsWordChar(s[i - 1])) # (i <= Len(s) /\ IsWordChar(s[i]))

w_http == <<"h","t","t","p",":","/","/">>
w_https == <<"h","t","t","p","s",":","/","/">>
w_adp_data == <<"a","d","p"," ","d","a","t","a">>
w_hashtag == <<"h","a","s","h","t","a","g"," ","b","a","s","k","e","t","b","a","l","l">>
w_season == <<"s","e","a","s","o","n">>
w_updated == <<"u","p","d","a","t","e","d">>
w_bl == <<"b","l">>
w_end == <<"e","n","d">>

\* https?://\S+ at position i
url_at(s, i) ==
    \/ at_ci(s, i, w_http) /\ i + 7 <= Len(s) /\ ~IsSpace(s[i + 7])
    \/ at_ci(s, i, w_https) /\ i + 8 <= Len(s) /\ ~IsSpace(s[i + 8])
\* \bBL(END)?\b at position i
blend_word_at(s, i) ==
    /\ boundary(s, i)
    /\ at_ci(s, i, w_bl)
    /\ boundary(s, i + 2) \/ (at_ci(s, i + 2, w_end) /\ boundary(s, i + 5))

link_only(line) == \E i \in 1..Len(line) : url_at(line, i)

\* re.search(r"(https?://\S+)|(ADP Data|Hashtag Basketball|Season|Updated|\bBL(END)?\b)",
\*           line, flags=re.I)
header_or_link(line) ==
    \E i \in 1..Len(line) :
        \/ url_at(line, i)
        \/ at_ci(line, i, w_adp_data)
        \/ at_ci(line, i, w_hashtag)
        \/ at_ci(line, i, w_season)
        \/ at_ci(line, i, w_updated)
        \/ blend_word_at(line, i)

\* a full match of \d+(?:\.\d+)?
is_number(t) ==
    /\ t # <<>>
    /\ \/ AllDigits(t)
       \/ \E k \in 2..(Len(t) - 1) :
             /\ t[k] = "."
             /\ AllDigits(SubSeq(t, 1, k - 1))
             /\ AllDigits(SubSeq(t, k + 1, Len(t)))

\* the start of the match of re.search(r"(\d+(?:\.\d+)?)\s*$", line): the
\* leftmost position a match begins at; 0 when there is none
search_number_at_end(line) ==
    LET starts == {i \in 1..Len(line) : is_number(rstrip(SubSeq(line, i, Len(line))))}
    IN  IF starts = {} THEN 0
        ELSE CHOOSE i \in starts : \A j \in starts : i <= j

\* the value of a run of digits
RECURSIVE int_of(_)
int_of(ds) ==
    IF ds = <<>> THEN 0
    ELSE 10 * int_of(SubSeq(ds, 1, Len(ds) - 1)) + DigitVal(ds[Len(ds)])
RECURSIVE drop_zeros(_)
drop_zeros(ds) ==
    IF ds # <<>> /\ ds[Len(ds)] = "0" THEN drop_zeros(SubSeq(ds, 1, Len(ds) - 1)) ELSE ds
\* float(t), t a match of \d+(?:\.\d+)?: the whole part, and the decimals
\* that count
float(t) ==
    LET dots == {k \in 1..Len(t) : t[k] = "."}
    IN  IF dots = {} THEN [whole |-> int_of(t), decimals |-> <<>>]
        ELSE LET k == CHOOSE d \in dots : TRUE
             IN  [whole |-> int_of(SubSeq(t, 1, k - 1)),
                  decimals |-> drop_zeros(SubSeq(t, k + 1, Len(t)))]

\* re.sub(r"^\s*\d+[\.\-]?\s*", "", body)
strip_index(body) ==
    LET nonspace == {i \in 1..Len(body) : ~IsSpace(body[i])}
        d == IF nonspace = {} THEN Len(body) + 1
             ELSE CHOOSE i \in nonspace : \A j \in nonspace : i <= j
        nondigit == {i \in d..Len(body) : ~IsDigit(body[i])}
        e == IF nondigit = {} THEN Len(body) + 1
             ELSE CHOOSE i \in nondigit : \A j \in nondigit : i <= j
        f == IF e <= Len(body) /\ body[e] \in {".", "-"} THEN e + 1 ELSE e
        rest == {i \in f..Len(body) : ~IsSpace(body[i])}
        g == IF rest = {} THEN Len(body) + 1
             ELSE CHOOSE i \in rest : \A j \in rest : i <= j
    IN  IF d <= Len(body) /\ IsDigit(body[d]) THEN SubSeq(body, g, Len(body)) ELSE body

\* re.search(r"\(([A-Z/]+)\)", body): <<start, end>> of the leftmost match,
\* <<0, 0>> when there is none
search_pos(body) ==
    LET ends(i) == {j \in (i + 2)..Len(body) :
                      body[j] = ")" /\ AllPosChars(SubSeq(body, i + 1, j - 1))}
        starts == {i \in 1..Len(body) : body[i] = "(" /\ ends(i) # {}}
    IN  IF starts = {} THEN <<0, 0>>
        ELSE LET i == CHOOSE a \in starts : \A b \in starts : a <= b
             IN  <<i, CHOOSE j \in ends(i) : TRUE>>

\* re.fullmatch(r"[A-Z]{2,4}", part)
is_team_code(part) == Len(part) \in 2..4 /\ AllUpper(part)

\* re.match(r"^https?://", player, flags=re.I)
bare_link(player) == at_ci(player, 1, w_http) \/ at_ci(player, 1, w_https)

\* len(player.split()) >= 2
two_tokens(player) == Len(split(player)) >= 2

\* the body of "for raw in text.splitlines()": the rows one line appends
text_line(rawline) ==
    LET line == clean(rawline)
        m_end == search_number_at_end(line)
        blend == float(rstrip(SubSeq(line, m_end, Len(line))))
        body1 == strip_index(strip(SubSeq(line, 1, m_end - 1)))
        m_pos == search_pos(body1)
        pos == IF m_pos[1] = 0 THEN <<>> ELSE SubSeq(body1, m_pos[1] + 1, m_pos[2] - 1)
        body == IF m_pos[1] = 0 THEN body1
                ELSE strip(SubSeq(body1, 1, m_pos[1] - 1)
                           \o SubSeq(body1, m_pos[2] + 1, Len(body1)))
        parts0 == split(body)
        peel == parts0 # <<>> /\ is_team_code(parts0[Len(parts0)])
        team == IF peel THEN parts0[Len(parts0)] ELSE <<>>
        parts == IF peel THEN SubSeq(parts0, 1, Len(parts0) - 1) ELSE parts0
        player == clean(join(parts))
    IN  IF line = <<>> THEN <<>>
        ELSE IF header_or_link(line) THEN <<>>
        ELSE IF m_end = 0 THEN <<>>
        ELSE IF bare_link(player) THEN <<>>
        ELSE IF two_tokens(player)
             THEN <<[Player |-> player, Team |-> team, Pos |-> pos, Blend |-> blend]>>
             ELSE <<>>

(***************************************************************************)
(* Inputs.                                                                 *)
(***************************************************************************)
RawRow(teams) == [Player : PlayerSet, Team : teams, Pos : {""}, Blend : RawBlends]

SeqsUpTo(S, n) == UNION {[1..k -> S] : k \in 0..n}

\* the k rows the two extractors pool from one PDF
PdfRows(k) == [1..k -> RawRow({""})]
\* the k data rows of one CSV file
CsvRows(k) == [1..k -> RawRow(Teams)]

\* the pieces a text line is put together from
t_index == <<"7",".">>
t_Luka == <<"L","u","k","a">>
t_Doncic == <<"D","o","n","c","i","c">>
t_url == <<"h","t","t","p","s",":","/","/","x">>
t_scheme == <<"h","t","t","p",":","/","/">>
t_Season == <<"S","e","a","s","o","n">>
t_bl == <<"b","l">>
t_pos == <<"(","P","G","/","S","G",")">>
t_team == <<"D","A","L">>
t_decimal == <<"4",".","0">>
t_integer == <<"1","2">>
t_glued == <<"X","7">>

NameToks == {t_Luka, t_Doncic, t_url, t_scheme, t_Season, t_bl}
Opt(t) == {<<>>, <<t>>}

\* the tokens of a line: an index, name-position tokens, a position, a team
\* code and a last token, each present or not
LineTokens ==
    {i \o n \o p \o t \o e :
        i \in Opt(t_index), n \in SeqsUpTo(NameToks, MaxNameToks),
        p \in Opt(t_pos), t \in Opt(t_team),
        e \in {<<>>, <<t_decimal>>, <<t_integer>>, <<t_glued>>}}

\* the tokens with a blank and a tab before each and a blank at the end
RECURSIVE padded(_)
padded(toks) ==
    IF toks = <<>> THEN <<" ">>
    ELSE <<" ", "\t">> \o toks[1] \o padded(Tail(toks))

\* the lines of a page's text, as splitlines() yields them
RawLines == {join(toks) : toks \in LineTokens} \cup {padded(toks) : toks \in LineTokens}

NoFile == [kind |-> "none", rows |-> <<>>]
NoLine == <<>>
NoRows == <<>>

(***************************************************************************)
(* The session: one action per script run the user triggers.               *)
(***************************************************************************)
Init ==
    /\ players_df = None
    /\ drafted = {}
    /\ to_draft = <<>>
    /\ event = "start"
    /\ upload = NoFile
    /\ raw = NoLine
    /\ emitted = NoRows

\* a run with a file in the PDF uploader
UploadPdf ==
    /\ IF unset(players_df)
       THEN /\ \E k \in 0..MaxPdfRows : \E rows \in PdfRows(k) :
                  players_df' = Stored(parse_pdf_cached(rows))
            /\ event' = "pdf_parsed"
       ELSE /\ players_df' = players_df
            /\ event' = "pdf_ignored"
    /\ UNCHANGED <<drafted, to_draft, upload, raw, emitted>>

\* a run with a file in the CSV uploader only
UploadCsv ==
    /\ IF unset(players_df)
       THEN /\ \E k \in 0..MaxCsvRows : \E rows \in CsvRows(k) :
                  players_df' = Stored(parse_csv(rows))
            /\ event' = "csv_parsed"
       ELSE /\ players_df' = players_df
            /\ event' = "csv_ignored"
    /\ UNCHANGED <<drafted, to_draft, upload, raw, emitted>>

\* the button "Move n selected to Drafted", enabled when rows are checked
MoveToDrafted ==
    /\ board_shown
    /\ \E checked \in SUBSET (1..Len(remaining_df)) :
          /\ to_draft' = checked_players(remaining_df, checked)
          /\ Len(to_draft') # 0
          /\ drafted' = update(drafted, to_draft')
    /\ event' = "move"
    /\ UNCHANGED <<players_df, upload, raw, emitted>>

\* the button "Reset Drafted"
ResetDrafted ==
    /\ board_shown
    /\ drafted' = {}
    /\ event' = "reset"
    /\ UNCHANGED <<players_df, to_draft, upload, raw, emitted>>

Next == UploadPdf \/ UploadCsv \/ MoveToDrafted \/ ResetDrafted

Spec == Init /\ [][Next]_vars

(***************************************************************************)
(* Ingestion as a function of the uploaded file.                           *)
(***************************************************************************)
InitIngest ==
    /\ players_df = None
    /\ drafted = {}
    /\ to_draft = <<>>
    /\ event = "start"
    /\ \/ \E k \in 0..MaxPdfRows : \E rows \in PdfRows(k) :
             upload = [kind |-> "pdf", rows |-> rows]
       \/ \E k \in 0..MaxCsvRows : \E rows \in CsvRows(k) :
             upload = [kind |-> "csv", rows |-> rows]
    /\ raw = NoLine
    /\ emitted = NoRows

IngestPdf ==
    /\ upload.kind = "pdf"
    /\ unset(players_df)
    /\ players_df' = Stored(parse_pdf_cached(upload.rows))
    /\ event' = "pdf_parsed"
    /\ UNCHANGED <<drafted, to_draft, upload, raw, emitted>>

IngestCsv ==
    /\ upload.kind = "csv"
    /\ unset(players_df)
    /\ players_df' = Stored(parse_csv(upload.rows))
    /\ event' = "csv_parsed"
    /\ UNCHANGED <<drafted, to_draft, upload, raw, emitted>>

NextIngest == IngestPdf \/ IngestCsv

SpecIngest == InitIngest /\ [][NextIngest]_vars

(***************************************************************************)
(* The text-line fallback as a function of one line of page text.          *)
(***************************************************************************)
InitText ==
    /\ players_df = None
    /\ drafted = {}
    /\ to_draft = <<>>
    /\ event = "start"
    /\ upload = NoFile
    /\ raw \in RawLines
    /\ emitted = NoRows

ParseLine ==
    /\ event = "start"
    /\ emitted' = text_line(raw)
    /\ event' = "line_parsed"
    /\ UNCHANGED <<players_df, drafted, to_draft, upload, raw>>

NextText == ParseLine

SpecText == InitText /\ [][NextText]_vars

(***************************************************************************)
(* Properties of the session (specification Spec).                         *)
(***************************************************************************)
roster == players_df.df

\* C1: whenever the board is shown, the names of the Remaining table and the
\* names of the Drafted table are disjoint and together are the names of the
\* whole roster.
C1_Partition ==
    board_shown =>
        /\ names_of(remaining_df) \cap names_of(drafted_df) = {}
        /\ names_of(remaining_df) \cup names_of(drafted_df) = names_of(roster)

C1_Witness ==
    /\ board_shown
    /\ event = "move"
    /\ remaining_df # <<>>
    /\ drafted_df # <<>>

\* C5: a move leaves drafted as the union of the old set and the selection,
\* and updating again with the same selection, with any player already
\* drafted, or with the empty selection changes nothing.
C5_MoveIdempotent ==
    [][event' = "move" =>
          /\ drafted' = drafted \cup list_set(to_draft')
          /\ update(drafted', to_draft') = drafted'
          /\ \A p \in drafted' : update(drafted', <<p>>) = drafted'
          /\ update(drafted', <<>>) = drafted']_vars

\* a move made when another player was drafted already
C5_Witness ==
    /\ event = "move"
    /\ to_draft # <<>>
    /\ drafted \ list_set(to_draft) # {}

\* C6: drafted starts empty; a step that is not a reset keeps every member
\* of drafted, and a reset leaves it empty.
C6_GrowsUntilReset ==
    /\ drafted = {}
    /\ [][/\ event' # "reset" => drafted \subseteq drafted'
          /\ event' = "reset" => drafted' = {}]_vars

\* a reset that emptied a drafted set a move had filled
C6_Witness ==
    /\ event = "reset"
    /\ to_draft # <<>>
    /\ drafted = {}

\* C7: right after a reset the Drafted table is empty and the Remaining
\* table is the whole roster, row for row in the roster's order.
C7_ResetRestoresRoster ==
    (board_shown /\ event = "reset") =>
        /\ drafted_df = <<>>
        /\ remaining_df = roster

\* a reset after a move, on a roster with two rows of the same Player and
\* a null Blend each, told apart by Team
C7_Witness ==
    /\ board_shown
    /\ event = "reset"
    /\ to_draft # <<>>
    /\ \E i \in 1..Len(roster), j \in 1..Len(roster) :
          /\ i < j
          /\ roster[i].Player = roster[j].Player
          /\ roster[i].Blend = NaN
          /\ roster[j].Blend = NaN
          /\ roster[i].Team # roster[j].Team

\* C10: once players_df is set, no step changes it.
C10_RosterAssignedOnce ==
    [][players_df # None => players_df' = players_df]_vars

\* an upload ignored because an empty roster is already stored
C10_Witness ==
    /\ event \in {"pdf_ignored", "csv_ignored"}
    /\ players_df # None
    /\ roster = <<>>

(***************************************************************************)
(* Properties of the ingestion paths (specification SpecIngest).           *)
(***************************************************************************)
parsed == event \in {"pdf_parsed", "csv_parsed"}

C3_UniquePlayers ==
    parsed =>
        \A i \in 1..Len(roster), j \in 1..Len(roster) :
            i # j => roster[i].Player # roster[j].Player

\* C4: along a roster the Blend never decreases, a null Blend counting as
\* greater than every number, and among equal Blends the Player never
\* decreases.
C4_RosterSorted ==
    parsed =>
        \A i \in 1..Len(roster), j \in 1..Len(roster) :
            i < j =>
                /\ roster[i].Blend = NaN => roster[j].Blend = NaN
                /\ (roster[i].Blend # NaN /\ roster[j].Blend # NaN)
                      => roster[i].Blend <= roster[j].Blend
                /\ roster[i].Blend = roster[j].Blend
                      => PlayerOrd(roster[i].Player) <= PlayerOrd(roster[j].Player)

\* a PDF whose rows were out of order, repeated a name and named more
\* players than the cap keeps
C4_Witness ==
    /\ event = "pdf_parsed"
    /\ Len(roster) = Cap
    /\ Cardinality(names_of(upload.rows)) > Cap
    /\ Cardinality(names_of(upload.rows)) < Len(upload.rows)
    /\ roster[Cap].Blend = NaN
    /\ to_numeric(upload.rows[1].Blend) = NaN

\* the raw records of a PDF named p, and the best Blend among them
records_of(p) == {i \in 1..Len(upload.rows) : upload.rows[i].Player = p}
scores_of(p) == {to_numeric(upload.rows[i].Blend) : i \in records_of(p)} \ {NaN}
best_of(p) ==
    IF scores_of(p) = {} THEN NaN
    ELSE CHOOSE b \in scores_of(p) : \A c \in scores_of(p) : b <= c
entries_of(p) == {i \in 1..Len(roster) : roster[i].Player = p}
\* the names that sort before p once each name is reduced to its best record
ahead_of(p) ==
    {q \in names_of(upload.rows) :
        Before([Player |-> q, Blend |-> best_of(q)],
               [Player |-> p, Blend |-> best_of(p)], "Blend", "last")}

\* C8 as stated: a name with several raw records has exactly one entry in
\* the roster, with the lowest non-null Blend among them.
C8_BestRecordSurvives ==
    event = "pdf_parsed" =>
        \A p \in PlayerSet :
            Cardinality(records_of(p)) >= 2 =>
                /\ Cardinality(entries_of(p)) = 1
                /\ \A i \in entries_of(p) : roster[i].Blend = best_of(p)

\* C8, amended: such a name has at most one entry, an entry it has carries
\* the lowest non-null Blend among its records, and it has one exactly when
\* fewer names than the cap sort before it.
C8_BestRecordSurvivesUnlessCut ==
    event = "pdf_parsed" =>
        \A p \in PlayerSet :
            Cardinality(records_of(p)) >= 2 =>
                /\ Cardinality(entries_of(p)) <= 1
                /\ \A i \in entries_of(p) : roster[i].Blend = best_of(p)
                /\ entries_of(p) # {} <=> Cardinality(ahead_of(p)) < Cap

\* a name recorded with two different scores, the worse one first, survives
C8_Witness ==
    /\ event = "pdf_parsed"
    /\ \E p \in PlayerSet :
          /\ Cardinality(scores_of(p)) >= 2
          /\ entries_of(p) # {}
          /\ \E i \in records_of(p) : \A j \in records_of(p) :
                i <= j /\ to_numeric(upload.rows[i].Blend) # best_of(p)

(***************************************************************************)
(* Properties of the text-line fallback (specification SpecText).          *)
(***************************************************************************)
the_line == clean(raw)
the_tokens == split(the_line)
\* a token holding http:// or https:// and a character after it
has_url_token ==
    \E k \in 1..Len(the_tokens) : \E i \in 1..Len(the_tokens[k]) :
        \/ at_ci(the_tokens[k], i, w_http) /\ Len(the_tokens[k]) > i + 6
        \/ at_ci(the_tokens[k], i, w_https) /\ Len(the_tokens[k]) > i + 7
\* ADP Data, Season or Updated anywhere, or a token that is BL or BLEND
has_vocabulary ==
    \/ \E i \in 1..Len(the_line) :
          at_ci(the_line, i, w_adp_data) \/ at_ci(the_line, i, w_season)
              \/ at_ci(the_line, i, w_updated)
    \/ \E k \in 1..Len(the_tokens) :
          \/ Len(the_tokens[k]) = 2 /\ at_ci(the_tokens[k], 1, w_bl)
          \/ Len(the_tokens[k]) = 5 /\ at_ci(the_tokens[k], 1, w_bl \o w_end)
\* the ends of the line that read as an integer or a decimal
number_ends == {n \in 1..Len(the_line) :
                  is_number(SubSeq(the_line, Len(the_line) - n + 1, Len(the_line)))}
trailing_number ==
    LET n == CHOOSE a \in number_ends : \A b \in number_ends : b <= a
    IN  SubSeq(the_line, Len(the_line) - n + 1, Len(the_line))

====
